---- MODULE Spec2Model ----
(***************************************************************************)
(* Model of the SAGAN training orchestrator (v1/SAGAN/sagan.py) and of the *)
(* self-attention layer (v1/SAGAN/layers.py).                              *)
(*                                                                         *)
(* Abstractions.  Tensor arithmetic of the networks is opaque library code *)
(* and is abstracted: a network is the record [w, gamma1, gamma2] where w  *)
(* identifies the weight values by the number of optimizer steps that      *)
(* produced them; a gradient buffer is the set of backward passes that     *)
(* have accumulated into it since it was last zeroed.  torch's random      *)
(* generator is a deterministic stream from a seed; every randn / normal   *)
(* call consumes one draw.  A discriminator score is an opaque integer     *)
(* function of the drawn input and the weights, on a batch of one element, *)
(* and the hinge losses are computed from it as in layers.py.  Real        *)
(* numbers that the code computes by division (means, the annealed sigma)  *)
(* are exact rationals <<num, den>> in lowest terms.                       *)
(***************************************************************************)
EXTENDS Integers, Sequences, FiniteSets, TLC

\* ---------------------------------------------------------------- bounds
MaxTotalSteps == 4
MaxIters == 2

\* configuration values the runs are drawn from (configs.*, sagan.py:28-52)
TotalStepsVals == 1..MaxTotalSteps
StepsPerEpochVals == {1, 2}
ItersVals == 1..MaxIters
LogStepVals == {1, 2, 3}
SaveEpochVals == {1, 2}
SigmaVals == {0, 1}
SigmaItersVals == {1, 2}
\* seeds of the process's random generator
SeedVals == {0, 1, 2}

\* the decay schedule taken alone: sigma, horizon, step index
SigmaMax == 3
SigmaItersMax == 4
StepIdxMax == 8

\* the self-attention layer taken alone: input shapes and values
MaxBatch == 2
MaxSide == 2
ChannelVals == {8, 16}
XSeedVals == {0, 1, 2}
WSeedVals == {0, 1}

VARIABLES
  cfg,                  \* self.<hyperparameter>, len(self.dataloader)
  G, D,                 \* network parameters
  g_optimizer, d_optimizer,   \* Adam states
  grad,                 \* .grad buffers of both networks' parameters
  rng,                  \* state of torch's random generator
  ave,                  \* the eight self.ave_* lists
  disk,                 \* model_path: checkpoint name -> checkpoint dict
  samples,              \* sample_path: epoch numbers with an image
  tb,                   \* scalars this object's SummaryWriter received
  resumed,              \* the current object was built with pretrained_model
  pc, epochs, epoch, step, it,        \* position in train()
  loc,                  \* the eight epoch-local lists
  d_loss_real, d_loss_fake, d_loss, g_loss,   \* locals of train()
  inst_noise_sigma_curr,
  \* history variables (not program state)
  d_steps, g_steps,     \* optimizer steps taken in the current training step
  d_applied, g_applied, \* gradient buffer seen by the last optimizer step
  d_trace, g_trace,     \* losses of every sub-iteration of the current step
  prev_sigma,           \* sigma of the previous training step of this run
  epochs_run,           \* <<epoch index, steps executed>> per finished loop
  D_epoch0, G_epoch0,   \* parameters at the start of the current epoch
  saved,                \* object state at the moment each checkpoint was saved
  \* the self-attention layer (layers.py)
  attn,                 \* a SelfAttn module: dims, f, g, h, v, gamma
  attn_x,               \* the feature map x given to forward
  attn_out              \* what forward returned

vars ==
  <<cfg, G, D, g_optimizer, d_optimizer, grad, rng, ave, disk, samples, tb, resumed,
    pc, epochs, epoch, step, it, loc, d_loss_real, d_loss_fake, d_loss, g_loss,
    inst_noise_sigma_curr, d_steps, g_steps, d_applied, g_applied, d_trace,
    g_trace, prev_sigma, epochs_run, D_epoch0, G_epoch0, saved, attn,
    attn_x, attn_out>>

attnVars == <<attn, attn_x, attn_out>>

\* ------------------------------------------------------- exact rationals
RECURSIVE GCD(_, _)
GCD(a, b) == IF b = 0 THEN a ELSE GCD(b, a % b)

Abs(a) == IF a < 0 THEN 0 - a ELSE a

\* n/d in lowest terms, d > 0
Rat(n, d) ==
  LET g == GCD(Abs(n), d)
  IN  IF g = 0 THEN <<0, 1>> ELSE <<n \div g, d \div g>>

RatLeq(p, q) == p[1] * q[2] <= q[1] * p[2]

RECURSIVE Sum(_)
Sum(s) == IF s = <<>> THEN 0 ELSE Head(s) + Sum(Tail(s))

\* a mean that accepts an empty list
MeanNeverRaises(l) == FALSE

\* statistics.mean raises StatisticsError on an empty list
MeanRaises(l) == l = <<>>

Mean(l) == IF l = <<>> THEN <<0, 0>> ELSE Rat(Sum(l), Len(l))

\* --------------------------------------------------------- metric lists
Names ==
  {"ave_d_losses", "ave_d_losses_real", "ave_d_losses_fake", "ave_d_gamma1",
   "ave_d_gamma2", "ave_g_losses", "ave_g_gamma1", "ave_g_gamma2"}

\* the epoch-local list each history list averages (sagan.py:250-258)
Local(n) ==
  CASE n = "ave_d_losses" -> "d_losses"
    [] n = "ave_d_losses_real" -> "d_losses_real"
    [] n = "ave_d_losses_fake" -> "d_losses_fake"
    [] n = "ave_d_gamma1" -> "d_gamma1"
    [] n = "ave_d_gamma2" -> "d_gamma2"
    [] n = "ave_g_losses" -> "g_losses"
    [] n = "ave_g_gamma1" -> "g_gamma1"
    [] n = "ave_g_gamma2" -> "g_gamma2"

LocalNames == {Local(n) : n \in Names}

\* sagan.py:58-66
EmptyHistory == [n \in Names |-> <<>>]

\* sagan.py:146-154
EmptyLocals == [n \in LocalNames |-> <<>>]

\* ------------------------------------------------- networks, optimizers
\* SelfAttn.gamma starts at zero (layers.py:67)
GammaInit == 0

\* Generator(...) / Discriminator(...) freshly built (sagan.py:73-74)
NewNet == [w |-> 0, gamma1 |-> GammaInit, gamma2 |-> GammaInit]

\* optim.Adam(...) freshly built (sagan.py:77-80)
NewAdam == [t |-> 0]

\* optimizer.step(): moves every parameter along its accumulated gradient
AdamParams(net, g) ==
  [w |-> net.w + 1,
   gamma1 |-> net.gamma1 + Cardinality(g),
   gamma2 |-> net.gamma2 + 1]

AdamState(opt) == [t |-> opt.t + 1]

\* a reset that zeroes the generator's gradients only
reset_grad_gen_only(g) == [G |-> {}, D |-> g.D]

\* reset_grad: zero_grad on both optimizers (sagan.py:117-120)
reset_grad(g) == [G |-> {}, D |-> {}]

\* loss.backward(): accumulates into the .grad of every parameter the loss
\* depends on
Backward(g, nets, tag) ==
  [n \in {"G", "D"} |-> IF n \in nets THEN g[n] \cup {tag} ELSE g[n]]

\* ------------------------------------------------- random draws, losses
\* the generator's next state after one randn / normal call
RngNext(r) == (5 * r + 3) % 8

\* self.D(images): the score of a one-element batch
DScore(input, net) == ((input + net.w) % 3) - 1

\* self.G(z): the generated images
GImage(z, net) == z + net.w

Relu(v) == IF v > 0 THEN v ELSE 0

\* layers.py:102-105
loss_hinge_dis_real(d_real) == Relu(1 - d_real)

\* layers.py:108-111
loss_hinge_dis_fake(d_fake) == Relu(1 + d_fake)

\* layers.py:114-117
loss_hinge_gen(d_fake) == 0 - d_fake

\* ------------------------------------------------------------ checkpoints
\* the dict given to torch.save (sagan.py:288-301)
Checkpoint(gen, disc, gopt, dopt, hist) ==
  [gen_state_dict |-> gen,
   disc_state_dict |-> disc,
   gen_optimizer |-> gopt,
   disc_optimizer |-> dopt,
   ave_d_losses |-> hist.ave_d_losses,
   ave_d_losses_real |-> hist.ave_d_losses_real,
   ave_d_losses_fake |-> hist.ave_d_losses_fake,
   ave_d_gamma1 |-> hist.ave_d_gamma1,
   ave_d_gamma2 |-> hist.ave_d_gamma2,
   ave_g_losses |-> hist.ave_g_losses,
   ave_g_gamma1 |-> hist.ave_g_gamma1,
   ave_g_gamma2 |-> hist.ave_g_gamma2]

\* the fields of a SAGAN object that a checkpoint carries
Object(gen, disc, gopt, dopt, hist) ==
  [G |-> gen, D |-> disc, g_optimizer |-> gopt, d_optimizer |-> dopt,
   ave |-> hist]

\* load_pretrained (sagan.py:90-112)
load_pretrained(obj, checkpoint) ==
  Object(checkpoint.gen_state_dict, checkpoint.disc_state_dict,
         checkpoint.gen_optimizer, checkpoint.disc_optimizer,
         [n \in Names |-> checkpoint[n]])

\* build_model (sagan.py:71-80)
build_model == Object(NewNet, NewNet, NewAdam, NewAdam, <<>>)

\* a constructor that empties the history lists after restoring them
SAGAN_init_lists_last(pretrained_model, files) ==
  LET built == build_model
      loaded == IF pretrained_model # 0
                  THEN load_pretrained(built, files[pretrained_model])
                  ELSE built
  IN  [loaded EXCEPT !.ave = EmptyHistory]

\* __init__ (sagan.py:54-69): build, empty lists, then restore if asked
SAGAN_init(pretrained_model, files) ==
  LET built == [build_model EXCEPT !.ave = EmptyHistory]
  IN  IF pretrained_model # 0
        THEN load_pretrained(built, files[pretrained_model])
        ELSE built

\* ------------------------------------------------------ train(): helpers
\* epochs = int(total_steps / step_per_epoch) (sagan.py:124)
Epochs(total_steps, step_per_epoch) == total_steps \div step_per_epoch

\* a start that ignores the checkpoint's epoch
StartEpochZero(pretrained_model) == 0

\* start_epoch (sagan.py:133-136)
StartEpoch(pretrained_model) ==
  IF pretrained_model # 0 THEN pretrained_model ELSE 0

\* the linear decay without its floor
InstNoiseSigmaNoFloor(s, sigma, iters) == Rat((iters - s) * sigma, iters)

\* inst_noise_sigma_curr (sagan.py:169-170)
InstNoiseSigmaCurr(s, sigma, iters) ==
  IF s > iters THEN <<0, 1>> ELSE Rat((iters - s) * sigma, iters)

\* a cadence on the 0-based step index
LogCadenceZeroBased(s, log_step) == s % log_step = 0

\* the logging cadence (sagan.py:229)
LogCadence(s, log_step) == (s + 1) % log_step = 0

\* sagan.py:231-239
LogRecord ==
  [d_losses |-> d_loss, d_losses_real |-> d_loss_real,
   d_losses_fake |-> d_loss_fake, d_gamma1 |-> D.gamma1,
   d_gamma2 |-> D.gamma2, g_losses |-> g_loss, g_gamma1 |-> G.gamma1,
   g_gamma2 |-> G.gamma2]

\* an averaging with the first append written twice
AppendMeansTwice(hist, locals) ==
  [n \in Names |->
     IF n = "ave_d_losses"
       THEN hist[n] \o <<Mean(locals[Local(n)]), Mean(locals[Local(n)])>>
       ELSE Append(hist[n], Mean(locals[Local(n)]))]

\* sagan.py:250-258
AppendMeans(hist, locals) ==
  [n \in Names |-> Append(hist[n], Mean(locals[Local(n)]))]

\* the save cadence (sagan.py:287)
SaveCadence(e, save_epoch) == (e + 1) % save_epoch = 0

Put(f, k, v) == [x \in DOMAIN f \cup {k} |-> IF x = k THEN v ELSE f[x]]

\* ------------------------------------------------------------------ Init
Configs ==
  [total_steps : TotalStepsVals, step_per_epoch : StepsPerEpochVals,
   d_iters : ItersVals, g_iters : ItersVals, log_step : LogStepVals,
   save_epoch : SaveEpochVals, inst_noise_sigma : SigmaVals,
   inst_noise_sigma_iters : SigmaItersVals, pretrained_model : {0}]

NoValue == <<>>

\* the locals of train() and the history variables before train() runs
FreshLocals ==
  /\ epochs = 0 /\ epoch = 0 /\ step = 0 /\ it = 0
  /\ loc = EmptyLocals
  /\ d_loss_real = 0 /\ d_loss_fake = 0 /\ d_loss = 0 /\ g_loss = 0
  /\ inst_noise_sigma_curr = NoValue
  /\ d_steps = 0 /\ g_steps = 0
  /\ d_applied = {} /\ g_applied = {}
  /\ d_trace = <<>> /\ g_trace = <<>>
  /\ prev_sigma = NoValue
  /\ epochs_run = <<>>

\* a SAGAN object built from scratch, before train() is called
Constructed ==
  /\ disk = <<>> /\ samples = {} /\ saved = <<>>
  /\ LET obj == SAGAN_init(0, disk)
     IN  /\ G = obj.G /\ D = obj.D
         /\ g_optimizer = obj.g_optimizer /\ d_optimizer = obj.d_optimizer
         /\ ave = obj.ave
         /\ D_epoch0 = obj.D /\ G_epoch0 = obj.G
  /\ grad = [G |-> {}, D |-> {}]
  /\ tb = <<>>
  /\ resumed = FALSE
  /\ FreshLocals

Init ==
  /\ cfg \in Configs
  /\ rng \in SeedVals
  /\ Constructed
  /\ pc = "train"
  /\ attn = NoValue /\ attn_x = NoValue /\ attn_out = NoValue

\* --------------------------------------------------------------- actions
selfVars == <<cfg, G, D, g_optimizer, d_optimizer, ave, resumed>>
fileVars == <<disk, samples, tb, saved>>
lossVars == <<d_loss_real, d_loss_fake, d_loss, g_loss>>

\* train(), up to the epoch loop (sagan.py:122-143)
TrainBegin ==
  /\ pc = "train"
  /\ epochs' = Epochs(cfg.total_steps, cfg.step_per_epoch)
  /\ epoch' = StartEpoch(cfg.pretrained_model)
  /\ rng' = RngNext(rng)
  /\ pc' = "epoch"
  /\ UNCHANGED <<selfVars, fileVars, lossVars, grad, step, it, loc,
                 inst_noise_sigma_curr, d_steps, g_steps, d_applied,
                 g_applied, d_trace, g_trace, prev_sigma, epochs_run,
                 D_epoch0, G_epoch0>>
  /\ UNCHANGED attnVars

\* one more epoch of range(start_epoch, epochs) (sagan.py:144-156)
EpochBegin ==
  /\ pc = "epoch" /\ epoch < epochs
  /\ loc' = EmptyLocals
  /\ step' = 0
  /\ D_epoch0' = D /\ G_epoch0' = G
  /\ pc' = "step"
  /\ UNCHANGED <<rng, selfVars, fileVars, lossVars, grad, epochs, epoch, it,
                 inst_noise_sigma_curr, d_steps, g_steps, d_applied,
                 g_applied, d_trace, g_trace, prev_sigma, epochs_run>>
  /\ UNCHANGED attnVars

\* range(start_epoch, epochs) is exhausted: train() returns
TrainEnd ==
  /\ pc = "epoch" /\ epoch >= epochs
  /\ pc' = "done"
  /\ UNCHANGED <<rng, selfVars, fileVars, lossVars, grad, epochs, epoch, step, it,
                 loc, inst_noise_sigma_curr, d_steps, g_steps, d_applied,
                 g_applied, d_trace, g_trace, prev_sigma, epochs_run,
                 D_epoch0, G_epoch0>>
  /\ UNCHANGED attnVars

\* next batch and its instance-noise std (sagan.py:157-171)
StepBegin ==
  /\ pc = "step" /\ step < cfg.step_per_epoch
  /\ inst_noise_sigma_curr' =
       InstNoiseSigmaCurr(step, cfg.inst_noise_sigma,
                          cfg.inst_noise_sigma_iters)
  /\ prev_sigma' = inst_noise_sigma_curr
  /\ it' = 0
  /\ d_steps' = 0 /\ g_steps' = 0
  /\ d_trace' = <<>> /\ g_trace' = <<>>
  /\ pc' = "d_loop"
  /\ UNCHANGED <<rng, selfVars, fileVars, lossVars, grad, epochs, epoch, step,
                 loc, d_applied, g_applied, epochs_run, D_epoch0, G_epoch0>>
  /\ UNCHANGED attnVars

\* one pass of `for _ in range(self.d_iters)` (sagan.py:175-203)
DIter ==
  /\ pc = "d_loop" /\ it < cfg.d_iters
  /\ LET noise_real == rng
         z == RngNext(noise_real)
         noise_fake == RngNext(z)
         real_images == step
         d_real == DScore(real_images + noise_real, D)
         d_fake == DScore(GImage(z, G) + noise_fake, D)
         r == loss_hinge_dis_real(d_real)
         f == loss_hinge_dis_fake(d_fake)
     IN  /\ d_loss_real' = r
         /\ d_loss_fake' = f
         /\ d_loss' = r + f
         /\ d_trace' = Append(d_trace, <<r, f>>)
         /\ rng' = RngNext(noise_fake)
  /\ grad' = Backward(Backward(reset_grad(grad), {"D"},
                               <<"d_real", epoch, step, it>>),
                      {"D", "G"}, <<"d_fake", epoch, step, it>>)
  /\ it' = it + 1
  /\ UNCHANGED <<selfVars, fileVars, g_loss, epochs, epoch, step, loc,
                 inst_noise_sigma_curr, d_steps, g_steps, d_applied,
                 g_applied, g_trace, prev_sigma, epochs_run, D_epoch0,
                 G_epoch0, pc>>
  /\ UNCHANGED attnVars

\* self.d_optimizer.step(), after the loop (sagan.py:205-206)
DOptimize ==
  /\ pc = "d_loop" /\ it >= cfg.d_iters
  /\ D' = AdamParams(D, grad.D)
  /\ d_optimizer' = AdamState(d_optimizer)
  /\ d_applied' = grad.D
  /\ d_steps' = d_steps + 1
  /\ it' = 0
  /\ pc' = "g_loop"
  /\ UNCHANGED <<rng, cfg, G, g_optimizer, ave, resumed, fileVars, lossVars, grad,
                 epochs, epoch, step, loc, inst_noise_sigma_curr, g_steps,
                 g_applied, d_trace, g_trace, prev_sigma, epochs_run,
                 D_epoch0, G_epoch0>>
  /\ UNCHANGED attnVars

\* one pass of `for _ in range(self.g_iters)` (sagan.py:210-224)
GIter ==
  /\ pc = "g_loop" /\ it < cfg.g_iters
  /\ LET z == rng
         inst_noise == RngNext(z)
         g_fake == DScore(GImage(z, G) + inst_noise, D)
         v == loss_hinge_gen(g_fake)
     IN  /\ g_loss' = v
         /\ g_trace' = Append(g_trace, v)
         /\ rng' = RngNext(inst_noise)
  /\ grad' = Backward(reset_grad(grad), {"G", "D"}, <<"g", epoch, step, it>>)
  /\ it' = it + 1
  /\ UNCHANGED <<selfVars, fileVars, d_loss_real, d_loss_fake, d_loss,
                 epochs, epoch, step, loc, inst_noise_sigma_curr, d_steps,
                 g_steps, d_applied, g_applied, d_trace, prev_sigma,
                 epochs_run, D_epoch0, G_epoch0, pc>>
  /\ UNCHANGED attnVars

\* self.g_optimizer.step(), after the loop (sagan.py:226)
GOptimize ==
  /\ pc = "g_loop" /\ it >= cfg.g_iters
  /\ G' = AdamParams(G, grad.G)
  /\ g_optimizer' = AdamState(g_optimizer)
  /\ g_applied' = grad.G
  /\ g_steps' = g_steps + 1
  /\ it' = 0
  /\ pc' = "log"
  /\ UNCHANGED <<rng, cfg, D, d_optimizer, ave, resumed, fileVars, lossVars, grad,
                 epochs, epoch, step, loc, inst_noise_sigma_curr, d_steps,
                 d_applied, d_trace, g_trace, prev_sigma, epochs_run,
                 D_epoch0, G_epoch0>>
  /\ UNCHANGED attnVars

\* logging step progression, end of the step body (sagan.py:228-247)
LogStep ==
  /\ pc = "log"
  /\ loc' = IF LogCadence(step, cfg.log_step)
              THEN [n \in LocalNames |-> Append(loc[n], LogRecord[n])]
              ELSE loc
  /\ step' = step + 1
  /\ pc' = "step"
  /\ UNCHANGED <<rng, selfVars, fileVars, lossVars, grad, epochs, epoch, it,
                 inst_noise_sigma_curr, d_steps, g_steps, d_applied,
                 g_applied, d_trace, g_trace, prev_sigma, epochs_run,
                 D_epoch0, G_epoch0>>
  /\ UNCHANGED attnVars

\* mean([]) raises at the first averaging line (sagan.py:250)
EpochAbort ==
  /\ pc = "step" /\ step >= cfg.step_per_epoch
  /\ MeanRaises(loc.d_losses)
  /\ pc' = "aborted"
  /\ UNCHANGED <<rng, selfVars, fileVars, lossVars, grad, epochs, epoch, step, it,
                 loc, inst_noise_sigma_curr, d_steps, g_steps, d_applied,
                 g_applied, d_trace, g_trace, prev_sigma, epochs_run,
                 D_epoch0, G_epoch0>>
  /\ UNCHANGED attnVars

\* averaging, metrics, sample image, checkpoint (sagan.py:249-303)
EpochEnd ==
  /\ pc = "step" /\ step >= cfg.step_per_epoch
  /\ ~MeanRaises(loc.d_losses)
  /\ ave' = AppendMeans(ave, loc)
  /\ tb' = Append(tb, [epoch |-> epoch,
                       scalars |-> [n \in Names |-> ave'[n][epoch + 1]]])
  /\ samples' = samples \cup {epoch + 1}
  /\ IF SaveCadence(epoch, cfg.save_epoch)
       THEN /\ disk' = Put(disk, epoch + 1,
                           Checkpoint(G, D, g_optimizer, d_optimizer, ave'))
            /\ saved' = Put(saved, epoch + 1,
                            Object(G, D, g_optimizer, d_optimizer, ave'))
       ELSE UNCHANGED <<disk, saved>>
  /\ epochs_run' = Append(epochs_run, <<epoch, step>>)
  /\ epoch' = epoch + 1
  /\ pc' = "epoch"
  /\ UNCHANGED <<rng, cfg, G, D, g_optimizer, d_optimizer, resumed, lossVars,
                 grad, epochs, step, it, loc, inst_noise_sigma_curr, d_steps,
                 g_steps, d_applied, g_applied, d_trace, g_trace, prev_sigma,
                 D_epoch0, G_epoch0>>
  /\ UNCHANGED attnVars

\* a later process builds a SAGAN with pretrained_model naming a saved
\* checkpoint (sagan.py:22-69), with its own total_steps
Resume ==
  /\ pc \in {"done", "aborted"} /\ ~resumed
  /\ \E k \in DOMAIN disk, ts \in TotalStepsVals :
       /\ cfg' = [cfg EXCEPT !.pretrained_model = k, !.total_steps = ts]
       /\ LET obj == SAGAN_init(k, disk)
          IN  /\ G' = obj.G /\ D' = obj.D
              /\ g_optimizer' = obj.g_optimizer
              /\ d_optimizer' = obj.d_optimizer
              /\ ave' = obj.ave
              /\ D_epoch0' = obj.D /\ G_epoch0' = obj.G
  /\ grad' = [G |-> {}, D |-> {}]
  /\ rng' \in SeedVals
  /\ tb' = <<>>
  /\ resumed' = TRUE
  /\ pc' = "train"
  /\ epochs' = 0 /\ epoch' = 0 /\ step' = 0 /\ it' = 0
  /\ loc' = EmptyLocals
  /\ d_loss_real' = 0 /\ d_loss_fake' = 0 /\ d_loss' = 0 /\ g_loss' = 0
  /\ inst_noise_sigma_curr' = NoValue
  /\ d_steps' = 0 /\ g_steps' = 0
  /\ d_applied' = {} /\ g_applied' = {}
  /\ d_trace' = <<>> /\ g_trace' = <<>>
  /\ prev_sigma' = NoValue
  /\ epochs_run' = <<>>
  /\ UNCHANGED <<disk, samples, saved>>
  /\ UNCHANGED attnVars

Next ==
  \/ TrainBegin \/ EpochBegin \/ TrainEnd \/ StepBegin \/ DIter \/ DOptimize
  \/ GIter \/ GOptimize \/ LogStep \/ EpochAbort \/ EpochEnd \/ Resume

Spec == Init /\ [][Next]_vars

\* ------------------------------------------- the decay schedule alone
\* the schedule of sagan.py:169-170 over the step indices of one long epoch
SigmaConfigs ==
  [total_steps : {StepIdxMax}, step_per_epoch : {StepIdxMax}, d_iters : {1},
   g_iters : {1}, log_step : {1}, save_epoch : {1},
   inst_noise_sigma : 0..SigmaMax,
   inst_noise_sigma_iters : 1..SigmaItersMax, pretrained_model : {0}]

InitSigma ==
  /\ cfg \in SigmaConfigs
  /\ rng = 0
  /\ Constructed
  /\ pc = "sigma"
  /\ attn = NoValue /\ attn_x = NoValue /\ attn_out = NoValue

SigmaStep ==
  /\ pc = "sigma" /\ step < cfg.step_per_epoch
  /\ inst_noise_sigma_curr' =
       InstNoiseSigmaCurr(step, cfg.inst_noise_sigma,
                          cfg.inst_noise_sigma_iters)
  /\ prev_sigma' = inst_noise_sigma_curr
  /\ step' = step + 1
  /\ UNCHANGED <<selfVars, fileVars, lossVars, grad, rng, pc, epochs, epoch,
                 it, loc, d_steps, g_steps, d_applied, g_applied, d_trace,
                 g_trace, epochs_run, D_epoch0, G_epoch0, attnVars>>

NextSigma == SigmaStep

SpecSigma == InitSigma /\ [][NextSigma]_vars

\* --------------------------------------------- the self-attention layer
\* A tensor is [shape |-> <<b, c, w, h>>, at |-> [index |-> value]]; values
\* are integers.  3-d intermediates are functions on <<b, row, column>>.
Index4(shape) ==
  (1..shape[1]) \X (1..shape[2]) \X (1..shape[3]) \X (1..shape[4])

Index3(b, r, c) == (1..b) \X (1..r) \X (1..c)

\* the identity; comparing a tensor with itself makes the model checker
\* compute its values once instead of at every use
Materialized(a) == IF a = a THEN a ELSE a

\* an input feature map with values in -2..2
Input(shape, seed) ==
  [shape |-> shape,
   at |-> [p \in Index4(shape) |->
             ((seed * p[2] + p[1] + 2 * p[3] + p[4]) % 5) - 2]]

\* conv1x1 (layers.py:9-11): a 1x1 convolution layer with its parameters
conv1x1(in_channels, out_channels, seed) ==
  [in |-> in_channels, out |-> out_channels,
   weight |-> [o \in 1..out_channels |->
                 [i \in 1..in_channels |-> ((seed + o + 2 * i) % 3) - 1]],
   bias |-> [o \in 1..out_channels |-> (seed + o) % 2]]

\* applying a 1x1 convolution
Conv(layer, t) ==
  LET shape == <<t.shape[1], layer.out, t.shape[3], t.shape[4]>>
  IN  [shape |-> shape,
       at |-> [p \in Index4(shape) |->
                 layer.bias[p[2]]
                 + Sum([i \in 1..layer.in |->
                          layer.weight[p[2]][i]
                          * t.at[<<p[1], i, p[3], p[4]>>]])]]

\* t.view(b, -1, N)
View3(t) ==
  LET height == t.shape[4]
      N == t.shape[3] * t.shape[4]
  IN  [q \in Index3(t.shape[1], t.shape[2], N) |->
         t.at[<<q[1], q[2], ((q[3] - 1) \div height) + 1,
                ((q[3] - 1) % height) + 1>>]]

\* a.view(b, c, width, height)
View4(a, shape) ==
  [shape |-> shape,
   at |-> [p \in Index4(shape) |->
             a[<<p[1], p[2], (p[3] - 1) * shape[4] + p[4]>>]]]

\* a.permute(0, 2, 1) of a [b, r, c] tensor
Permute(a, b, r, c) == [q \in Index3(b, c, r) |-> a[<<q[1], q[3], q[2]>>]]

\* torch.bmm of [b, n, k] and [b, k, m]
Bmm(a1, a2, b, n, k, m) ==
  [q \in Index3(b, n, m) |->
     Sum([j \in 1..k |-> a1[<<q[1], q[2], j>>] * a2[<<q[1], j, q[3]>>]])]

RECURSIVE MaxOf(_)
MaxOf(seq) ==
  IF Len(seq) = 1 THEN seq[1]
  ELSE LET m == MaxOf(Tail(seq))
       IN  IF seq[1] > m THEN seq[1] ELSE m

\* 2^(-d) with 4 fractional bits, underflowing to 0
Exp2(d) == IF d > 4 THEN 0 ELSE 2 ^ (4 - d)

\* nn.Softmax(dim=-1) of a [b, n, m] tensor: weights in sixteenths, the
\* exponential taken to base 2
Softmax(a, b, n, m) ==
  [q \in Index3(b, n, m) |->
     LET row == [j \in 1..m |-> a[<<q[1], q[2], j>>]]
         top == MaxOf(row)
         Z == Sum([j \in 1..m |-> Exp2(top - row[j])])
     IN  (16 * Exp2(top - row[q[3]])) \div Z]

\* a residual sum that leaves the gate out
GateNoGamma(gamma, o, t) ==
  [shape |-> t.shape, at |-> [p \in Index4(t.shape) |-> o.at[p] + t.at[p]]]

\* out = self.gamma*out + x (layers.py:95)
Gate(gamma, o, t) ==
  [shape |-> t.shape,
   at |-> [p \in Index4(t.shape) |-> gamma * o.at[p] + t.at[p]]]

\* SelfAttn.__init__ (layers.py:59-70)
SelfAttn_init(channels, seed) ==
  LET k == channels \div 8
  IN  [f |-> conv1x1(channels, k, seed),
       g |-> conv1x1(channels, k, seed + 1),
       h |-> conv1x1(channels, channels \div 2, seed + 2),
       v |-> conv1x1(channels \div 2, channels, seed + 1),
       gamma |-> GammaInit,
       trained |-> FALSE]

\* forward up to the gate: self.v(out.view(...)) (layers.py:81-93)
Attended(m, t) ==
  LET b == t.shape[1]
      c == t.shape[2]
      width == t.shape[3]
      height == t.shape[4]
      N == width * height
      k == m.f.out
      f == Materialized(Permute(View3(Conv(m.f, t)), b, k, N))
      g == Materialized(View3(Conv(m.g, t)))
      h == Materialized(View3(Conv(m.h, t)))
      transpose == Materialized(Bmm(f, g, b, N, k, N))
      beta == Materialized(Permute(Softmax(transpose, b, N, N), b, N, N))
      o16 == Materialized(Bmm(h, beta, b, c \div 2, N, N))
      o == [q \in Index3(b, c \div 2, N) |-> o16[q] \div 16]
  IN  Conv(m.v, View4(o, <<b, c \div 2, width, height>>))

\* SelfAttn.forward (layers.py:72-96)
forward(m, t) == Gate(m.gamma, Attended(m, t), t)

Shapes ==
  {<<b, c, w, h>> : b \in 1..MaxBatch, c \in ChannelVals,
                    w \in 1..MaxSide, h \in 1..MaxSide}

InitAttn ==
  /\ cfg \in [total_steps : {1}, step_per_epoch : {1}, d_iters : {1},
              g_iters : {1}, log_step : {1}, save_epoch : {1},
              inst_noise_sigma : {0}, inst_noise_sigma_iters : {1},
              pretrained_model : {0}]
  /\ rng = 0
  /\ Constructed
  /\ pc = "attn"
  /\ \E shape \in Shapes, xs \in XSeedVals, ws \in WSeedVals :
       /\ attn = SelfAttn_init(shape[2], ws)
       /\ attn_x = Input(shape, xs)
  /\ attn_out = NoValue

trainVars ==
  <<cfg, G, D, g_optimizer, d_optimizer, grad, rng, ave, disk, samples, tb,
    resumed, epochs, epoch, step, it, loc, d_loss_real, d_loss_fake, d_loss,
    g_loss, inst_noise_sigma_curr, d_steps, g_steps, d_applied, g_applied,
    d_trace, g_trace, prev_sigma, epochs_run, D_epoch0, G_epoch0, saved>>

\* out = module(x)
AttnForward ==
  /\ pc = "attn"
  /\ attn_out' = forward(attn, attn_x)
  /\ pc' = "forwarded"
  /\ UNCHANGED <<trainVars, attn, attn_x>>

\* gamma is a learnable parameter (layers.py:67): an optimizer step moves it
AttnTrain ==
  /\ pc \in {"attn", "forwarded"} /\ ~attn.trained
  /\ \E delta \in {-1, 1} :
       attn' = [attn EXCEPT !.gamma = @ + delta, !.trained = TRUE]
  /\ attn_out' = NoValue
  /\ pc' = "attn"
  /\ UNCHANGED <<trainVars, attn_x>>

NextAttn == AttnForward \/ AttnTrain

SpecAttn == InitAttn /\ [][NextAttn]_vars

\* ================================================================ claims
InEpoch == pc \in {"step", "d_loop", "g_loop", "log"}

Max0(v) == IF v > 0 THEN v ELSE 0

\* C1: in every training step the discriminator optimizer steps d_iters
\* times and the generator optimizer g_iters times (one step at the end of
\* each sub-iteration).
C1_OptimizerStepPerIteration ==
  pc = "log" => d_steps = cfg.d_iters /\ g_steps = cfg.g_iters

\* C3: over the whole run the sigma applied at successive training steps
\* never increases, and once it is zero it stays zero, across epochs too.
C3_SigmaNeverIncreasesOverRun ==
  (InEpoch /\ prev_sigma # NoValue /\ inst_noise_sigma_curr # NoValue) =>
    /\ RatLeq(inst_noise_sigma_curr, prev_sigma)
    /\ prev_sigma = <<0, 1>> => inst_noise_sigma_curr = <<0, 1>>

\* C4: a run that returns has executed exactly the epochs
\* k, k+1, ..., floor(total_steps / steps_per_epoch) - 1 in this order, k the
\* checkpoint epoch (0 from scratch), each with exactly steps_per_epoch
\* training steps: max(0, floor(total_steps / steps_per_epoch) - k) epochs.
C4_TerminatesByCount ==
  pc = "done" =>
    LET k == cfg.pretrained_model
        n == Max0((cfg.total_steps \div cfg.step_per_epoch) - k)
    IN  epochs_run = [i \in 1..n |-> <<k + i - 1, cfg.step_per_epoch>>]

C4_Witness ==
  pc = "done" /\ resumed /\ Len(epochs_run) >= 2 /\ cfg.step_per_epoch = 1

\* C5: an object constructed with pretrained_model naming a saved checkpoint
\* has the generator and discriminator parameters, both optimizer states and
\* the eight history lists that the saving run had at the moment of saving.
C5_CheckpointRoundTrip ==
  (pc = "train" /\ resumed) =>
    Object(G, D, g_optimizer, d_optimizer, ave) = saved[cfg.pretrained_model]

C5_Witness ==
  /\ pc = "train" /\ resumed
  /\ Len(ave.ave_d_losses) >= 2 /\ D.w >= 2 /\ d_optimizer.t >= 2

\* C7: within an epoch a step-level record is appended exactly at the steps
\* whose 1-based index is a multiple of log_step, and the losses recorded are
\* those of the last discriminator and last generator sub-iteration of that
\* step, with the four gamma values.
C7_Expected ==
  LET dl == d_trace[Len(d_trace)]
  IN  [d_losses |-> dl[1] + dl[2], d_losses_real |-> dl[1],
       d_losses_fake |-> dl[2], d_gamma1 |-> D.gamma1,
       d_gamma2 |-> D.gamma2, g_losses |-> g_trace[Len(g_trace)],
       g_gamma1 |-> G.gamma1, g_gamma2 |-> G.gamma2]

C7_LogCadenceAndLastIteration ==
  /\ [](InEpoch =>
          \A n \in LocalNames : Len(loc[n]) = step \div cfg.log_step)
  /\ [][pc = "log" =>
          IF (step + 1) % cfg.log_step = 0
            THEN loc' = [n \in LocalNames |-> Append(loc[n], C7_Expected[n])]
            ELSE loc' = loc]_vars

C7_Witness ==
  /\ pc = "step" /\ step = 2 /\ cfg.log_step = 2
  /\ Len(loc.d_losses) = 1
  /\ Len(d_trace) = 2 /\ d_trace[1] # d_trace[2]
  /\ Len(g_trace) = 2 /\ g_trace[1] # g_trace[2]

\* C8: the eight history lists always have equal length; within a run they
\* only change by the append of an epoch's averaging, which adds exactly one
\* entry to each, after which each list has epoch+1 entries and the value
\* emitted to the metrics sink for that epoch is the mean just computed.
C8_NewRun == pc \in {"done", "aborted"} /\ pc' = "train"

C8_HistoryAppendOnly ==
  /\ [](\A n, m \in Names : Len(ave[n]) = Len(ave[m]))
  /\ [][~C8_NewRun =>
          IF pc = "step" /\ pc' = "epoch"
            THEN /\ \A n \in Names :
                      /\ ave'[n] = Append(ave[n], Mean(loc[Local(n)]))
                      /\ Len(ave'[n]) = epoch + 1
                 /\ tb' = Append(tb,
                            [epoch |-> epoch,
                             scalars |->
                               [n \in Names |-> Mean(loc[Local(n)])]])
            ELSE ave' = ave /\ tb' = tb]_vars

C8_Witness ==
  /\ resumed /\ pc = "epoch" /\ Len(tb) >= 1
  /\ Len(ave.ave_g_gamma2) >= 3

\* C9: the gradients a discriminator optimizer step applies are exactly the
\* real and fake backward passes of the last discriminator sub-iteration of
\* the same training step, and those a generator optimizer step applies are
\* exactly the generator backward pass of the last generator sub-iteration
\* of the same training step.
C9_OnlyLastIterationGradients ==
  /\ pc \in {"g_loop", "log"} =>
       d_applied = {<<"d_real", epoch, step, cfg.d_iters - 1>>,
                    <<"d_fake", epoch, step, cfg.d_iters - 1>>}
  /\ pc = "log" => g_applied = {<<"g", epoch, step, cfg.g_iters - 1>>}

C9_Witness ==
  /\ pc = "log" /\ cfg.d_iters > 1 /\ cfg.g_iters > 1
  /\ step >= 1 /\ epoch >= 1

\* C10: when log_step > steps_per_epoch the epoch's averaging aborts the
\* run: the history lists, the metrics sink, the sample images and the
\* checkpoints are left as they were, while both networks have been updated
\* by every training step of that epoch.
C10_AbortWithoutLoggedStep ==
  /\ [][(pc = "step" /\ step >= cfg.step_per_epoch
           /\ cfg.log_step > cfg.step_per_epoch) =>
          /\ pc' = "aborted"
          /\ UNCHANGED <<ave, tb, samples, disk, G, D>>]_vars
  /\ [](pc = "aborted" =>
          /\ cfg.log_step > cfg.step_per_epoch
          /\ D.w = D_epoch0.w + cfg.step_per_epoch
          /\ G.w = G_epoch0.w + cfg.step_per_epoch)

C10_Witness ==
  /\ pc = "aborted" /\ cfg.step_per_epoch = 2
  /\ D.w = 2 /\ G.w = 2 /\ ave = EmptyHistory

\* C2: for every initial sigma >= 0 and horizon >= 1 the sigma computed for
\* a step index equals the initial sigma at index 0, is exactly 0 at every
\* index at or after the horizon, and is never larger than the sigma of the
\* index before.
C2_SigmaSchedule ==
  (pc = "sigma" /\ step > 0) =>
    LET s == step - 1
    IN  /\ s = 0 => inst_noise_sigma_curr = <<cfg.inst_noise_sigma, 1>>
        /\ s >= cfg.inst_noise_sigma_iters =>
             inst_noise_sigma_curr = <<0, 1>>
        /\ s > 0 => RatLeq(inst_noise_sigma_curr, prev_sigma)

C2_Witness ==
  /\ pc = "sigma" /\ step - 1 = cfg.inst_noise_sigma_iters
  /\ cfg.inst_noise_sigma_iters >= 3
  /\ inst_noise_sigma_curr = <<0, 1>>
  /\ prev_sigma # NoValue /\ prev_sigma # <<0, 1>> /\ prev_sigma[2] > 1

\* C6: a newly constructed SelfAttn module (gamma = 0, no parameter update
\* yet) returns from forward an output equal to its input, whatever the
\* input feature map.
C6_IdentityAtInit ==
  (pc = "forwarded" /\ ~attn.trained) => attn_out = attn_x

C6_Witness ==
  /\ pc = "forwarded" /\ ~attn.trained
  /\ attn_x.shape[1] > 1 /\ attn_x.shape[3] > 1 /\ attn_x.shape[4] > 1
  /\ \E p \in Index4(attn_x.shape) : Attended(attn, attn_x).at[p] # 0
  /\ \E p \in Index4(attn_x.shape) : attn_x.at[p] # 0

====
